---- MODULE Spec2Model ----
(***************************************************************************)
(* Model of nzgd_sqlite: the peewee schema and query builders of orm.py    *)
(* and the record assemblers and search facade of db.py.                   *)
(*                                                                         *)
(* The rows are read-only for this code: the tables are filled by an       *)
(* ingest process outside the repository, and the only write of the        *)
(* repository is initialize_db, which creates tables.  Init therefore      *)
(* draws the table contents from bounded sets (or takes a new, empty       *)
(* database file), and every action is one call of a public function on    *)
(* that storage; `call` holds the search or assembly call and its          *)
(* arguments and `ret` what it produced (a value or the exception raised). *)
(*                                                                         *)
(* Conventions.  An Optional[...] argument is a set with at most one       *)
(* element ({} is None).  Text that is searched by substring is a sequence *)
(* of one-character strings; names compared only for equality are strings. *)
(* A table is the sequence of its rows in rowid order.  Depths,            *)
(* efficiencies and diameters are integers standing for the floats.        *)
(***************************************************************************)
EXTENDS Integers, Sequences, FiniteSets, TLC

VARIABLES Region, District, City, Suburb, NZGDRecord,
          SPTReport, SPTMeasurements,
          VelocityProfiles, VsMeasurements,
          CPTReport, CPTMeasurements, CPTMaxDepth,
          SoilMeasurements, SoilTypes, SoilMeasurementSoilType,
          db_tables, call, ret

tables == <<Region, District, City, Suburb, NZGDRecord,
            SPTReport, SPTMeasurements,
            VelocityProfiles, VsMeasurements,
            CPTReport, CPTMeasurements, CPTMaxDepth,
            SoilMeasurements, SoilTypes, SoilMeasurementSoilType>>

\* the database file: the rows of every table and which tables exist in it
storage == <<tables, db_tables>>

vars == <<storage, call, ret>>

(***************************************************************************)
(* Bounds of the model.                                                    *)
(***************************************************************************)
\* rows in each measurement table
MaxMeas == 3
\* filters supplied together in one search call
MaxSupplied == 2

(***************************************************************************)
(* Small helpers.                                                          *)
(***************************************************************************)
None == {}
Some(v) == {v}
Val(o) == CHOOSE v \in o : TRUE
Opt(S) == {None} \cup {Some(v) : v \in S}

Range(s) == {s[i] : i \in 1..Len(s)}
SeqsUpTo(S, n) == UNION {[1..k -> S] : k \in 0..n}

RECURSIVE SetMax(_)
SetMax(S) ==
    LET x == CHOOSE v \in S : TRUE
    IN  IF S = {x} THEN x
        ELSE LET m == SetMax(S \ {x}) IN IF x >= m THEN x ELSE m

\* No search or assembly writes storage, so such a call sees the tables as
\* any earlier one left them: the model follows one of them from each
\* storage content, before or after initialize_db.
Idle == call.op = "none"

Raise(exc) == [status |-> exc]
Return(v) == [status |-> "ok", value |-> v]

(***************************************************************************)
(* Storage contents.  The schema of orm.py, one row constructor per model. *)
(***************************************************************************)
\* the closed set of soil-type labels
SoilTypesEnum == <<"SAND", "SILT", "CLAY", "GRAVEL", "BOULDERS">>

ReportIds == {1, 2, 3}
MeasOwners == {1, 2}
Depths == {0, 1, 2}

\* a measurement table's shape: the depth of each of its rows; the second
\* row belongs to report 2 and every other row to report 1, and report 3
\* has no measurements
MeasShapes == SeqsUpTo(Depths, MaxMeas)
DefaultShape == <<1, 0, 0>>
MeasOwner(i) == IF i = 2 THEN 2 ELSE 1
\* every velocity measurement belongs to profile 1
VsOwner(i) == 1

\* a geography lookup table either is whole or lost its row 2; row 2 may
\* carry the same name as row 1 (names are not unique in the schema)
GeoChoices == [deleted : {"none", "Region", "District", "City", "Suburb"},
               same : BOOLEAN]
DefaultGeo == [deleted |-> "none", same |-> FALSE]

\* the labels of soil layer 1 and of soil layer 2
LabelSets == {{}, {"SAND"}, {"CLAY", "SILT"}}
SoilChoices == [1..2 -> LabelSets]
DefaultSoil == <<{"SAND"}, {"CLAY", "SILT"}>>

LookupIds(table, g) == IF g.deleted = table THEN <<1>> ELSE <<1, 2>>
LookupName(n1, n2, i, g) == IF i = 1 \/ g.same THEN n1 ELSE n2

RegionTable(g) ==
    LET ids == LookupIds("Region", g)
    IN  [k \in 1..Len(ids) |->
            [region_id |-> ids[k],
             name |-> LookupName("Canterbury", "Otago", ids[k], g)]]

DistrictTable(g) ==
    LET ids == LookupIds("District", g)
    IN  [k \in 1..Len(ids) |->
            [district_id |-> ids[k],
             name |-> LookupName("Selwyn", "Clutha", ids[k], g)]]

CityTable(g) ==
    LET ids == LookupIds("City", g)
    IN  [k \in 1..Len(ids) |->
            [city_id |-> ids[k],
             name |-> LookupName("Christchurch", "Dunedin", ids[k], g)]]

SuburbTable(g) ==
    LET ids == LookupIds("Suburb", g)
    IN  [k \in 1..Len(ids) |->
            [suburb_id |-> ids[k],
             name |-> LookupName("Riccarton", "Roslyn", ids[k], g)]]

\* two investigations; the second references row 2 of every lookup table
NZGDRecordTable ==
    <<[nzgd_id |-> 1, original_reference |-> <<"x", "A", "B">>,
       investigation_date |-> "2001-02-03", published_date |-> "2002-03-04",
       latitude |-> -43, longitude |-> 172,
       region_id |-> 1, district_id |-> 1, city_id |-> 1, suburb_id |-> 1],
      [nzgd_id |-> 2, original_reference |-> <<"a", "c">>,
       investigation_date |-> "2011-12-13", published_date |-> "2012-01-14",
       latitude |-> -45, longitude |-> 170,
       region_id |-> 2, district_id |-> 2, city_id |-> 2, suburb_id |-> 2]>>

NzgdOf(i) == IF i <= 2 THEN 1 ELSE 2

SPTReportTable ==
    [i \in ReportIds |->
        [borehole_id |-> i, nzgd_id |-> NzgdOf(i),
         borehole_file |-> <<"bh", i>>,
         efficiency |-> 38 + 17 * i,
         borehole_diameter |-> 50 + 50 * i]]

CPTReportTable ==
    [i \in ReportIds |->
        [cpt_id |-> i, nzgd_id |-> NzgdOf(i), cpt_file |-> <<"cpt", i>>]]

VelocityProfilesTable ==
    [i \in MeasOwners |->
        [profile_id |-> i, nzgd_id |-> NzgdOf(i),
         profile_file |-> <<"vs", i>>]]

SPTMeasurementsTable(m) ==
    [i \in 1..Len(m) |->
        [id |-> i, borehole_id |-> MeasOwner(i), depth |-> m[i],
         n |-> 10 + i]]

CPTMeasurementsTable(m) ==
    [i \in 1..Len(m) |->
        [measurement_id |-> i, cpt_id |-> MeasOwner(i), depth |-> m[i],
         qc |-> i, fs |-> 2 * i, u2 |-> 3 * i]]

VsMeasurementsTable(m) ==
    [i \in 1..Len(m) |->
        [measurement_id |-> i, profile_id |-> VsOwner(i),
         depth |-> m[i], vs |-> 100 + i]]

\* the summary the ingest keeps: one row per cone report that has
\* measurements, holding the largest of their depths
CPTMaxDepthTable(m) ==
    LET has == SelectSeq(<<1, 2>>,
                         LAMBDA c : \E i \in 1..Len(m) : MeasOwner(i) = c)
    IN  [k \in 1..Len(has) |->
            [cpt_id |-> has[k],
             max_depth |-> SetMax({m[i] :
                                     i \in {j \in 1..Len(m) : MeasOwner(j) = has[k]}})]]

\* two soil layers of borehole 1, stored deeper layer first
SoilMeasurementsTable ==
    <<[measurement_id |-> 1, report_id |-> 1, top_depth |-> 2],
      [measurement_id |-> 2, report_id |-> 1, top_depth |-> 0]>>

SoilTypesTable ==
    [i \in 1..Len(SoilTypesEnum) |-> [id |-> i, name |-> SoilTypesEnum[i]]]

\* layer 2 (top 0) takes s[1], layer 1 (top 2) takes s[2]
JunctionTable(s) ==
    LET pairs == {<<l, t>> \in {1, 2} \X (1..Len(SoilTypesEnum)) :
                     SoilTypesEnum[t] \in s[3 - l]}
        ord == SelectSeq(<<<<1, 1>>, <<1, 2>>, <<1, 3>>, <<1, 4>>, <<1, 5>>,
                           <<2, 1>>, <<2, 2>>, <<2, 3>>, <<2, 4>>, <<2, 5>>>>,
                         LAMBDA p : p \in pairs)
    IN  [k \in 1..Len(ord) |->
            [soil_measurement_id |-> ord[k][1], soil_type_id |-> ord[k][2]]]

\* every model class of orm.py, by name
AllTables == {"Region", "District", "City", "Suburb", "NZGDRecord",
              "SPTReport", "SPTMeasurements",
              "VelocityProfiles", "VsMeasurements",
              "CPTReport", "CPTMeasurements", "CPTMaxDepth",
              "SoilMeasurements", "SoilTypes", "SoilMeasurementSoilType"}

\* a database file the ingest process has created and filled
IngestedDatabase ==
    \E m \in MeasShapes, g \in GeoChoices, s \in SoilChoices :
        /\ \/ g = DefaultGeo /\ s = DefaultSoil
           \/ m = DefaultShape /\ s = DefaultSoil
           \/ m = DefaultShape /\ g = DefaultGeo
        /\ Region = RegionTable(g)
        /\ District = DistrictTable(g)
        /\ City = CityTable(g)
        /\ Suburb = SuburbTable(g)
        /\ NZGDRecord = NZGDRecordTable
        /\ SPTReport = SPTReportTable
        /\ SPTMeasurements = SPTMeasurementsTable(m)
        /\ VelocityProfiles = VelocityProfilesTable
        /\ VsMeasurements = VsMeasurementsTable(m)
        /\ CPTReport = CPTReportTable
        /\ CPTMeasurements = CPTMeasurementsTable(m)
        /\ CPTMaxDepth = CPTMaxDepthTable(m)
        /\ SoilMeasurements = SoilMeasurementsTable
        /\ SoilTypes = SoilTypesTable
        /\ SoilMeasurementSoilType = JunctionTable(s)
        /\ db_tables = AllTables

\* a new database file (SqliteDatabase("geodata.db") on a path that does not
\* exist yet): no table, no row
EmptyDatabase ==
    /\ Region = <<>>
    /\ District = <<>>
    /\ City = <<>>
    /\ Suburb = <<>>
    /\ NZGDRecord = <<>>
    /\ SPTReport = <<>>
    /\ SPTMeasurements = <<>>
    /\ VelocityProfiles = <<>>
    /\ VsMeasurements = <<>>
    /\ CPTReport = <<>>
    /\ CPTMeasurements = <<>>
    /\ CPTMaxDepth = <<>>
    /\ SoilMeasurements = <<>>
    /\ SoilTypes = <<>>
    /\ SoilMeasurementSoilType = <<>>
    /\ db_tables = {}

Init ==
    /\ IngestedDatabase \/ EmptyDatabase
    /\ call = [op |-> "none"]
    /\ ret = [status |-> "none"]

(***************************************************************************)
(* Python and SQL semantics the query builders rest on.                    *)
(***************************************************************************)
\* `if x:` on an Optional number: None and 0 are both false
Truthy(o) == o # None /\ Val(o) # 0

\* SQLite folds ASCII case in LIKE, which is what peewee's contains() emits
Lower(c) == CASE c = "A" -> "a" [] c = "B" -> "b" [] c = "C" -> "c" [] OTHER -> c
LowerSeq(s) == [i \in 1..Len(s) |-> Lower(s[i])]
\* Contains as a byte-for-byte comparison (what GLOB or instr() would do)
ContainsCaseSensitive(hay, needle) ==
    \E i \in 0..(Len(hay) - Len(needle)) :
        SubSeq(hay, i + 1, i + Len(needle)) = needle

Contains(hay, needle) ==
    \E i \in 0..(Len(hay) - Len(needle)) :
        LowerSeq(SubSeq(hay, i + 1, i + Len(needle))) = LowerSeq(needle)

\* the rows a join ranges over: every row of the table when the join is
\* part of the query, a single placeholder when it is not
JoinDom(table, joined) == IF joined THEN 1..Len(table) ELSE {0}

Repeat(x, n) == [k \in 1..n |-> x]

\* the rows a SELECT produces: row i of the table once per joined row
RECURSIVE Emit(_, _, _)
Emit(table, count, i) ==
    IF i > Len(table) THEN <<>>
    ELSE Repeat(table[i], count[i]) \o Emit(table, count, i + 1)

(***************************************************************************)
(* orm.search_spt_reports                                                  *)
(***************************************************************************)
SptParams == {"borehole_id", "min_efficiency", "max_efficiency",
              "min_diameter", "max_diameter", "nzgd_id", "original_reference",
              "max_measurement_depth", "min_measurement_depth",
              "region", "district", "city", "suburb"}

Supplied(f, params) == {p \in params : f[p] # None}

SptFilters ==
    {f \in [borehole_id : Opt({1}),
            min_efficiency : Opt({60, 72}),
            max_efficiency : Opt({60, 80}),
            min_diameter : Opt({150, 200}),
            max_diameter : Opt({150}),
            nzgd_id : Opt({1}),
            original_reference : Opt({<<"a", "b">>}),
            max_measurement_depth : Opt({0, 1}),
            min_measurement_depth : Opt({0, 1}),
            region : Opt({"Canterbury"}),
            district : Opt({"Selwyn"}),
            city : Opt({"Christchurch"}),
            suburb : Opt({"Roslyn"})] :
        Cardinality(Supplied(f, SptParams)) <= MaxSupplied}

\* is the measurement table joined (line 381)
SptDepthJoin(f) ==
    Truthy(f.max_measurement_depth) \/ Truthy(f.min_measurement_depth)

\* SptFieldWhere with the upper efficiency bound left out
SptFieldWhereNoMaxEfficiency(r, g, f) ==
    /\ f.borehole_id # None => r.borehole_id = Val(f.borehole_id)
    /\ f.min_efficiency # None => r.efficiency >= Val(f.min_efficiency)
    /\ f.min_diameter # None => r.borehole_diameter >= Val(f.min_diameter)
    /\ f.max_diameter # None => r.borehole_diameter <= Val(f.max_diameter)
    /\ f.nzgd_id # None => g.nzgd_id = Val(f.nzgd_id)
    /\ f.original_reference # None =>
           Contains(g.original_reference, Val(f.original_reference))

\* the WHERE conditions of lines 338-351 on report row r joined to
\* investigation row g
SptFieldWhere(r, g, f) ==
    /\ f.borehole_id # None => r.borehole_id = Val(f.borehole_id)
    /\ f.min_efficiency # None => r.efficiency >= Val(f.min_efficiency)
    /\ f.max_efficiency # None => r.efficiency <= Val(f.max_efficiency)
    /\ f.min_diameter # None => r.borehole_diameter >= Val(f.min_diameter)
    /\ f.max_diameter # None => r.borehole_diameter <= Val(f.max_diameter)
    /\ f.nzgd_id # None => g.nzgd_id = Val(f.nzgd_id)
    /\ f.original_reference # None =>
           Contains(g.original_reference, Val(f.original_reference))

\* the joins of lines 352-379 (and 448-475): ON the key, WHERE the name
GeoWhere(t, g, f) ==
    /\ f.region # None =>
           /\ g.region_id = Region[t.region].region_id
           /\ Region[t.region].name = Val(f.region)
    /\ f.district # None =>
           /\ g.district_id = District[t.district].district_id
           /\ District[t.district].name = Val(f.district)
    /\ f.city # None =>
           /\ g.city_id = City[t.city].city_id
           /\ City[t.city].name = Val(f.city)
    /\ f.suburb # None =>
           /\ g.suburb_id = Suburb[t.suburb].suburb_id
           /\ Suburb[t.suburb].name = Val(f.suburb)

\* all conditions of the query on one joined row: the join to the
\* investigation (line 335), the filters, the join to the measurements
\* (line 384)
SptWhere(t, f) ==
    LET r == SPTReport[t.r]
        g == NZGDRecord[t.g]
    IN  /\ r.nzgd_id = g.nzgd_id
        /\ SptFieldWhere(r, g, f)
        /\ GeoWhere(t, g, f)
        /\ SptDepthJoin(f) =>
               SPTMeasurements[t.m].borehole_id = r.borehole_id

\* the joined rows of the query, each named by the rows it is made of
SptJoined(f) ==
    {t \in [r : 1..Len(SPTReport),
            g : 1..Len(NZGDRecord),
            region : JoinDom(Region, f.region # None),
            district : JoinDom(District, f.district # None),
            city : JoinDom(City, f.city # None),
            suburb : JoinDom(Suburb, f.suburb # None),
            m : JoinDom(SPTMeasurements, SptDepthJoin(f))] :
        SptWhere(t, f)}

\* HAVING of lines 387-390 on the group of report row i
SptHaving(J, i, f) ==
    LET mx == SetMax({SPTMeasurements[t.m].depth : t \in {u \in J : u.r = i}})
    IN  /\ Truthy(f.max_measurement_depth) => mx <= Val(f.max_measurement_depth)
        /\ Truthy(f.min_measurement_depth) => mx >= Val(f.min_measurement_depth)

\* SptCount without the GROUP BY: HAVING still decides, but every joined
\* row is a result row
SptCountUngrouped(f) ==
    LET J == SptJoined(f)
    IN  [i \in 1..Len(SPTReport) |->
            LET n == Cardinality({t \in J : t.r = i})
            IN  IF SptDepthJoin(f) /\ ~(n > 0 /\ SptHaving(J, i, f)) THEN 0 ELSE n]

\* how many result rows report row i gives: one per joined row, or with
\* GROUP BY one per group that passes HAVING
SptCount(f) ==
    LET J == SptJoined(f)
    IN  [i \in 1..Len(SPTReport) |->
            LET n == Cardinality({t \in J : t.r = i})
            IN  IF SptDepthJoin(f)
                THEN IF n > 0 /\ SptHaving(J, i, f) THEN 1 ELSE 0
                ELSE n]

orm_search_spt_reports(f) == Emit(SPTReport, SptCount(f), 1)

\* the tables the query of lines 333-390 names for the arguments f
SptQueryTables(f) ==
    {"SPTReport", "NZGDRecord"}
        \cup (IF f.region # None THEN {"Region"} ELSE {})
        \cup (IF f.district # None THEN {"District"} ELSE {})
        \cup (IF f.city # None THEN {"City"} ELSE {})
        \cup (IF f.suburb # None THEN {"Suburb"} ELSE {})
        \cup (IF SptDepthJoin(f) THEN {"SPTMeasurements"} ELSE {})

\* iter(query) of line 393 executes the SELECT: SQLite refuses a statement
\* that names a table the file does not have
Execute(query_tables, rows) ==
    IF query_tables \subseteq db_tables THEN Return(rows)
    ELSE Raise("OperationalError")

OrmSearchSpt ==
    \E f \in SptFilters :
        /\ Idle
        /\ call' = [op |-> "orm.search_spt_reports", args |-> f]
        /\ ret' = Execute(SptQueryTables(f), orm_search_spt_reports(f))
        /\ UNCHANGED storage

(***************************************************************************)
(* orm.search_cpt_reports                                                  *)
(***************************************************************************)
CptParams == {"cpt_id", "nzgd_id", "original_reference",
              "region", "district", "city", "suburb",
              "max_measurement_depth", "min_measurement_depth"}

CptFilters ==
    {f \in [cpt_id : Opt({1}),
            nzgd_id : Opt({1}),
            original_reference : Opt({<<"a", "b">>}),
            region : Opt({"Canterbury"}),
            district : Opt({"Selwyn"}),
            city : Opt({"Christchurch"}),
            suburb : Opt({"Roslyn"}),
            max_measurement_depth : Opt({0, 1}),
            min_measurement_depth : Opt({0, 1})] :
        Cardinality(Supplied(f, CptParams)) <= MaxSupplied}

\* CptDepthJoin with the join added whatever the filters are
CptDepthJoinAlways(f) == TRUE

\* is the max-depth summary table joined (line 478)
CptDepthJoin(f) ==
    Truthy(f.max_measurement_depth) \/ Truthy(f.min_measurement_depth)

\* the WHERE conditions of lines 440-445
CptFieldWhere(r, g, f) ==
    /\ f.cpt_id # None => r.cpt_id = Val(f.cpt_id)
    /\ f.nzgd_id # None => g.nzgd_id = Val(f.nzgd_id)
    /\ f.original_reference # None =>
           Contains(g.original_reference, Val(f.original_reference))

\* all conditions of the query on one joined row: the join to the
\* investigation (line 437), the filters, the join to the summary (line 481)
CptWhere(t, f) ==
    LET r == CPTReport[t.r]
        g == NZGDRecord[t.g]
    IN  /\ r.nzgd_id = g.nzgd_id
        /\ CptFieldWhere(r, g, f)
        /\ GeoWhere(t, g, f)
        /\ CptDepthJoin(f) => CPTMaxDepth[t.m].cpt_id = r.cpt_id

CptJoined(f) ==
    {t \in [r : 1..Len(CPTReport),
            g : 1..Len(NZGDRecord),
            region : JoinDom(Region, f.region # None),
            district : JoinDom(District, f.district # None),
            city : JoinDom(City, f.city # None),
            suburb : JoinDom(Suburb, f.suburb # None),
            m : JoinDom(CPTMaxDepth, CptDepthJoin(f))] :
        CptWhere(t, f)}

\* HAVING of lines 484-487 on the group of report row i: max_depth is a
\* bare column, so SQLite reads it from one row of the group
CptHaving(J, i, f) ==
    \E t \in {u \in J : u.r = i} :
        LET d == CPTMaxDepth[t.m].max_depth
        IN  /\ Truthy(f.max_measurement_depth) => d <= Val(f.max_measurement_depth)
            /\ Truthy(f.min_measurement_depth) => d >= Val(f.min_measurement_depth)

CptCount(f) ==
    LET J == CptJoined(f)
    IN  [i \in 1..Len(CPTReport) |->
            LET n == Cardinality({t \in J : t.r = i})
            IN  IF CptDepthJoin(f)
                THEN IF n > 0 /\ CptHaving(J, i, f) THEN 1 ELSE 0
                ELSE n]

orm_search_cpt_reports(f) == Emit(CPTReport, CptCount(f), 1)

\* the tables the query of lines 437-487 names for the arguments f
CptQueryTables(f) ==
    {"CPTReport", "NZGDRecord"}
        \cup (IF f.region # None THEN {"Region"} ELSE {})
        \cup (IF f.district # None THEN {"District"} ELSE {})
        \cup (IF f.city # None THEN {"City"} ELSE {})
        \cup (IF f.suburb # None THEN {"Suburb"} ELSE {})
        \cup (IF CptDepthJoin(f) THEN {"CPTMaxDepth"} ELSE {})

OrmSearchCpt ==
    \E f \in CptFilters :
        /\ Idle
        /\ call' = [op |-> "orm.search_cpt_reports", args |-> f]
        /\ ret' = Execute(CptQueryTables(f), orm_search_cpt_reports(f))
        /\ UNCHANGED storage


(***************************************************************************)
(* peewee model instances: the attributes each model class has.  A field   *)
(* `x` gives the attribute x; a ForeignKeyField named x_id gives x_id (the *)
(* related instance, fetched on access) and x_id_id (the raw key); a       *)
(* backref is an attribute of the model the key points TO.                 *)
(***************************************************************************)
NZGDRecordAttrs ==
    {"nzgd_id", "original_reference", "investigation_date", "published_date",
     "latitude", "longitude",
     "region_id", "district_id", "city_id", "suburb_id",
     "region_id_id", "district_id_id", "city_id_id", "suburb_id_id",
     "spt_reports", "velocity_profiles", "cpt_reports"}

SoilMeasurementsAttrs ==
    {"measurement_id", "report_id", "report_id_id", "top_depth", "soil_types"}

\* SELECT ... WHERE key = id LIMIT 1 behind a foreign-key attribute
Lookup(table, key, id) ==
    LET rows == SelectSeq(table, LAMBDA x : x[key] = id)
    IN  IF rows = <<>> THEN Raise("DoesNotExist") ELSE Return(rows[1])

\* record.<attr> on an orm.NZGDRecord instance
NZGDRecordGetAttr(record, attr) ==
    CASE attr \notin NZGDRecordAttrs -> Raise("AttributeError")
      [] attr = "region_id" -> Lookup(Region, "region_id", record.region_id)
      [] attr = "district_id" -> Lookup(District, "district_id", record.district_id)
      [] attr = "city_id" -> Lookup(City, "city_id", record.city_id)
      [] attr = "suburb_id" -> Lookup(Suburb, "suburb_id", record.suburb_id)
      [] OTHER -> Return(record[attr])

\* s.<attr> on an orm.SoilMeasurements instance
SoilMeasurementsGetAttr(s, attr) ==
    IF attr \in SoilMeasurementsAttrs THEN Return(s[attr])
    ELSE Raise("AttributeError")

\* the rows behind a backref attribute, in storage order
Backref(table, key, id) == SelectSeq(table, LAMBDA x : x[key] = id)

(***************************************************************************)
(* sorted(rows, key=lambda x: x.<key>): Python's sort is stable            *)
(***************************************************************************)
\* InsertByKey that puts x before the rows whose key equals its own
InsertBeforeEqualKeys(acc, x, key) ==
    LET k == Cardinality({i \in 1..Len(acc) : acc[i][key] < x[key]})
    IN  SubSeq(acc, 1, k) \o <<x>> \o SubSeq(acc, k + 1, Len(acc))

\* x goes after every row whose key is not greater than its own
InsertByKey(acc, x, key) ==
    LET k == Cardinality({i \in 1..Len(acc) : acc[i][key] <= x[key]})
    IN  SubSeq(acc, 1, k) \o <<x>> \o SubSeq(acc, k + 1, Len(acc))

RECURSIVE SortFrom(_, _, _, _)
SortFrom(rows, key, i, acc) ==
    IF i > Len(rows) THEN acc
    ELSE SortFrom(rows, key, i + 1, InsertByKey(acc, rows[i], key))

sorted(rows, key) == SortFrom(rows, key, 1, <<>>)

(***************************************************************************)
(* db.NZGDRecord.from_orm                                                  *)
(***************************************************************************)
\* record.<attr>.name
NameVia(record, attr) ==
    LET rel == NZGDRecordGetAttr(record, attr)
    IN  IF rel.status = "ok" THEN Return(rel.value.name) ELSE rel

NZGDRecord_from_orm(record) ==
    LET region == NameVia(record, "region")
        district == NameVia(record, "district")
        city == NameVia(record, "city")
        suburb == NameVia(record, "suburb")
    IN  CASE region.status # "ok" -> region
          [] district.status # "ok" -> district
          [] city.status # "ok" -> city
          [] suburb.status # "ok" -> suburb
          [] OTHER ->
               Return([nzgd_id |-> record.nzgd_id,
                       original_reference |-> record.original_reference,
                       investigation_date |-> record.investigation_date,
                       published_date |-> record.published_date,
                       latitude |-> record.latitude,
                       longitude |-> record.longitude,
                       region |-> region.value,
                       district |-> district.value,
                       city |-> city.value,
                       suburb |-> suburb.value])

NZGDRecordFromOrm ==
    \E i \in 1..Len(NZGDRecord) :
        /\ Idle
        /\ call' = [op |-> "NZGDRecord.from_orm", args |-> NZGDRecord[i]]
        /\ ret' = NZGDRecord_from_orm(NZGDRecord[i])
        /\ UNCHANGED storage

(***************************************************************************)
(* db.SPTReport.from_orm                                                   *)
(***************************************************************************)
\* the DataFrame of lines 141-145: one packed row per measurement
SPTMeasurementsFrame(report) ==
    LET ms == sorted(Backref(SPTMeasurements, "borehole_id", report.borehole_id),
                     "depth")
    IN  [i \in 1..Len(ms) |-> [depth |-> ms[i].depth, n_value |-> ms[i].n]]

\* a peewee model instance held by reference: its fields are in memory, its
\* backrefs (soil_types) and foreign keys are queries run when they are read
OrmInstance(model, pk) == [orm |-> model, pk |-> pk]

\* intervaltree: the tree is a set of Interval(begin, end, data) tuples and
\* add() of an interval it already holds changes nothing
IntervalTreeAdd(tree, interval) ==
    IF interval \in tree THEN tree ELSE tree \cup {interval}

\* the inner loop of lines 150-151 over the n junction rows of layer s
RECURSIVE AddPerSoilType(_, _, _)
AddPerSoilType(tree, s, n) ==
    IF n = 0 THEN Return(tree)
    ELSE LET bottom == SoilMeasurementsGetAttr(s, "bottom_depth")
         IN  IF bottom.status # "ok" THEN bottom
             ELSE AddPerSoilType(
                      IntervalTreeAdd(tree, [begin |-> s.top_depth,
                                             end |-> bottom.value,
                                             data |-> OrmInstance("SoilMeasurements",
                                                                 s.measurement_id)]),
                      s, n - 1)

\* the outer loop of line 149 over the layers from the i-th on
RECURSIVE AddLayers(_, _, _)
AddLayers(tree, layers, i) ==
    IF i > Len(layers) THEN Return(tree)
    ELSE LET s == layers[i]
             soil_types == Backref(SoilMeasurementSoilType,
                                   "soil_measurement_id", s.measurement_id)
             added == AddPerSoilType(tree, s, Len(soil_types))
         IN  IF added.status # "ok" THEN added
             ELSE AddLayers(added.value, layers, i + 1)

SoilMeasurementsTree(report) ==
    AddLayers({}, sorted(Backref(SoilMeasurements, "report_id",
                                 report.borehole_id), "top_depth"), 1)

SPTReport_from_orm(report) ==
    LET measurements_df == SPTMeasurementsFrame(report)
        soil_measurements_tree == SoilMeasurementsTree(report)
        nzgd == Lookup(NZGDRecord, "nzgd_id", report.nzgd_id)
        nzgd_record == IF nzgd.status = "ok"
                       THEN NZGDRecord_from_orm(nzgd.value) ELSE nzgd
    IN  CASE soil_measurements_tree.status # "ok" -> soil_measurements_tree
          [] nzgd_record.status # "ok" -> nzgd_record
          [] OTHER ->
               Return([borehole_id |-> report.borehole_id,
                       borehole_file |-> report.borehole_file,
                       efficiency |-> report.efficiency,
                       borehole_diameter |-> report.borehole_diameter,
                       measurements |-> measurements_df,
                       soil_measurements |-> soil_measurements_tree.value,
                       nzgd_record |-> nzgd_record.value])

SPTReportFromOrm ==
    \E i \in 1..Len(SPTReport) :
        /\ Idle
        /\ call' = [op |-> "SPTReport.from_orm", args |-> SPTReport[i]]
        /\ ret' = SPTReport_from_orm(SPTReport[i])
        /\ UNCHANGED storage

(***************************************************************************)
(* db.CPTReport.from_orm and db.VelocityProfile.from_orm                   *)
(***************************************************************************)
CPTReport_from_orm(report) ==
    LET ms == sorted(Backref(CPTMeasurements, "cpt_id", report.cpt_id), "depth")
        measurements_df ==
            [i \in 1..Len(ms) |-> [depth |-> ms[i].depth, qc |-> ms[i].qc,
                                   fs |-> ms[i].fs, u2 |-> ms[i].u2]]
    IN  Return([cpt_id |-> report.cpt_id,
                cpt_file |-> report.cpt_file,
                measurements |-> measurements_df])

CPTReportFromOrm ==
    \E i \in 1..Len(CPTReport) :
        /\ Idle
        /\ call' = [op |-> "CPTReport.from_orm", args |-> CPTReport[i]]
        /\ ret' = CPTReport_from_orm(CPTReport[i])
        /\ UNCHANGED storage

VelocityProfile_from_orm(profile) ==
    LET vms == sorted(Backref(VsMeasurements, "profile_id", profile.profile_id),
                      "depth")
        vs_df == [i \in 1..Len(vms) |-> [depth |-> vms[i].depth, vs |-> vms[i].vs]]
    IN  Return([profile_id |-> profile.profile_id,
                profile_file |-> profile.profile_file,
                vs_measurements |-> vs_df])

VelocityProfileFromOrm ==
    \E i \in 1..Len(VelocityProfiles) :
        /\ Idle
        /\ call' = [op |-> "VelocityProfile.from_orm", args |-> VelocityProfiles[i]]
        /\ ret' = VelocityProfile_from_orm(VelocityProfiles[i])
        /\ UNCHANGED storage

(***************************************************************************)
(* db.search_spt_reports                                                   *)
(***************************************************************************)
DbSptParams == {"borehole_id", "min_efficiency", "max_efficiency",
                "min_diameter", "max_diameter", "nzgd_id",
                "original_reference", "max_measurement_depth",
                "min_measurement_depth", "region"}

DbSptFilters ==
    {f \in [borehole_id : Opt({1}),
            min_efficiency : Opt({60, 72}),
            max_efficiency : Opt({60, 80}),
            min_diameter : Opt({150, 200}),
            max_diameter : Opt({150}),
            nzgd_id : Opt({1}),
            original_reference : Opt({<<"a", "b">>}),
            max_measurement_depth : Opt({0, 1}),
            min_measurement_depth : Opt({0, 1}),
            region : Opt({"Canterbury"})] :
        Cardinality(Supplied(f, DbSptParams)) <= MaxSupplied}

\* the keyword arguments of the call of lines 297-308
SptKwargs(f) ==
    [borehole_id |-> f.borehole_id,
     min_efficiency |-> f.min_efficiency,
     max_efficiency |-> f.max_efficiency,
     min_diameter |-> f.min_diameter,
     max_diameter |-> f.max_diameter,
     nzgd_id |-> f.nzgd_id,
     original_reference |-> f.original_reference,
     max_measurement_depth |-> f.max_measurement_depth,
     min_measurement_depth |-> f.min_measurement_depth,
     region_name |-> f.region]

\* Python binds keyword arguments by name: a keyword the callee does not
\* declare is a TypeError, a parameter not passed takes its default None
BindKwargs(kwargs, params) ==
    IF DOMAIN kwargs \subseteq params
    THEN Return([p \in params |-> IF p \in DOMAIN kwargs THEN kwargs[p] ELSE None])
    ELSE Raise("TypeError")

\* the list comprehension of lines 295-309: the first from_orm that raises
\* ends it
RECURSIVE AssembleAll(_, _, _)
AssembleAll(reports, i, acc) ==
    IF i > Len(reports) THEN Return(acc)
    ELSE LET one == SPTReport_from_orm(reports[i])
         IN  IF one.status # "ok" THEN one
             ELSE AssembleAll(reports, i + 1, Append(acc, one.value))

db_search_spt_reports(f) ==
    LET bound == BindKwargs(SptKwargs(f), SptParams)
    IN  IF bound.status # "ok" THEN bound
        ELSE LET reports == Execute(SptQueryTables(bound.value),
                                    orm_search_spt_reports(bound.value))
             IN  IF reports.status # "ok" THEN reports
                 ELSE AssembleAll(reports.value, 1, <<>>)

DbSearchSpt ==
    \E f \in DbSptFilters :
        /\ Idle
        /\ call' = [op |-> "db.search_spt_reports", args |-> f]
        /\ ret' = db_search_spt_reports(f)
        /\ UNCHANGED storage

(***************************************************************************)
(* orm.initialize_db                                                       *)
(***************************************************************************)
\* the models listed in the create_tables call of lines 495-511
InitializeDbModels == {"CPTMeasurements", "CPTReport", "NZGDRecord", "Region",
                       "SPTMeasurements", "SPTReport", "SoilMeasurementSoilType",
                       "SoilMeasurements", "SoilTypes", "VelocityProfiles",
                       "VsMeasurements", "City", "District", "Suburb"}

\* create_tables issues CREATE TABLE IF NOT EXISTS for each listed model; a
\* table the file already has keeps its rows
create_tables(models) == db_tables \cup models

\* initialize_db returns nothing: the caller is idle again afterwards, and
\* `call` and `ret` go on to record the search or assembly that follows
InitializeDb ==
    /\ Idle
    /\ db_tables' = create_tables(InitializeDbModels)
    /\ UNCHANGED <<tables, call, ret>>

Next ==
    \/ InitializeDb
    \/ OrmSearchSpt
    \/ OrmSearchCpt
    \/ NZGDRecordFromOrm
    \/ SPTReportFromOrm
    \/ CPTReportFromOrm
    \/ VelocityProfileFromOrm
    \/ DbSearchSpt

Spec == Init /\ [][Next]_vars

(***************************************************************************)
(* What the claims speak of, stated on the stored rows themselves.         *)
(***************************************************************************)
\* the investigation a report belongs to
InvestigationOf(r) ==
    CHOOSE g \in Range(NZGDRecord) : g.nzgd_id = r.nzgd_id

\* the name the lookup table gives the id, if it has a row for it
NamesOf(table, key, id) == {x.name : x \in {y \in Range(table) : y[key] = id}}

\* the depths of the measurements of borehole b
SptDepths(b) == {m.depth : m \in {x \in Range(SPTMeasurements) : x.borehole_id = b}}

\* is x a contiguous part of y, letter case included
ExactContains(hay, needle) ==
    \E i \in 0..(Len(hay) - Len(needle)) :
        SubSeq(hay, i + 1, i + Len(needle)) = needle

\* the exact-match and range criteria of a penetration-test search
SptMatchesFields(r, f) ==
    LET g == InvestigationOf(r)
    IN  /\ f.borehole_id # None => r.borehole_id = Val(f.borehole_id)
        /\ f.nzgd_id # None => r.nzgd_id = Val(f.nzgd_id)
        /\ f.min_efficiency # None => Val(f.min_efficiency) <= r.efficiency
        /\ f.max_efficiency # None => r.efficiency <= Val(f.max_efficiency)
        /\ f.min_diameter # None => Val(f.min_diameter) <= r.borehole_diameter
        /\ f.max_diameter # None => r.borehole_diameter <= Val(f.max_diameter)
        /\ f.region # None => Val(f.region) \in NamesOf(Region, "region_id", g.region_id)
        /\ f.district # None =>
               Val(f.district) \in NamesOf(District, "district_id", g.district_id)
        /\ f.city # None => Val(f.city) \in NamesOf(City, "city_id", g.city_id)
        /\ f.suburb # None => Val(f.suburb) \in NamesOf(Suburb, "suburb_id", g.suburb_id)

\* the depth criterion: the deepest measurement lies within the bounds given
SptMatchesDepth(r, f) ==
    (f.max_measurement_depth # None \/ f.min_measurement_depth # None) =>
        /\ SptDepths(r.borehole_id) # {}
        /\ f.max_measurement_depth # None =>
               SetMax(SptDepths(r.borehole_id)) <= Val(f.max_measurement_depth)
        /\ f.min_measurement_depth # None =>
               SetMax(SptDepths(r.borehole_id)) >= Val(f.min_measurement_depth)

\* every criterion of a penetration-test search
SptMatches(r, f) ==
    /\ SptMatchesFields(r, f)
    /\ f.original_reference # None =>
           ExactContains(InvestigationOf(r).original_reference,
                         Val(f.original_reference))
    /\ SptMatchesDepth(r, f)

\* the claims about searches and assembly speak of storage as the ingest
\* process leaves it, with every table of the schema in place
Ingested == db_tables = AllTables

IsOrmSptSearch == call.op = "orm.search_spt_reports" /\ Ingested

\* C1: a penetration-test search returns every stored report that matches
\* all supplied criteria, and no borehole_id twice, whatever child rows and
\* geography joins the query has.
C1_SearchCompleteNoDuplicates ==
    IsOrmSptSearch =>
        /\ \A r \in Range(SPTReport) :
               SptMatches(r, call.args) =>
                   \E i \in 1..Len(ret.value) :
                       ret.value[i].borehole_id = r.borehole_id
        /\ \A i, j \in 1..Len(ret.value) :
               ret.value[i].borehole_id = ret.value[j].borehole_id => i = j

\* a depth-filtered, region-filtered search that returns a report with
\* several measurement rows
C1_Witness ==
    /\ IsOrmSptSearch
    /\ Truthy(call.args.max_measurement_depth)
    /\ call.args.region # None
    /\ \E i \in 1..Len(ret.value) :
           /\ Cardinality({k \in 1..Len(SPTMeasurements) :
                  SPTMeasurements[k].borehole_id = ret.value[i].borehole_id}) >= 2
           /\ SptMatches(ret.value[i], call.args)

\* C2: every report a penetration-test search returns satisfies every
\* exact-match and range filter supplied, range bounds inclusive.
C2_ReturnedSatisfyFilters ==
    IsOrmSptSearch =>
        \A i \in 1..Len(ret.value) : SptMatchesFields(ret.value[i], call.args)

\* a search with both efficiency bounds that keeps the report with
\* efficiency 72 and drops the others
C2_Witness ==
    /\ IsOrmSptSearch
    /\ call.args.min_efficiency = Some(72)
    /\ call.args.max_efficiency = Some(80)
    /\ Len(ret.value) = 1
    /\ ret.value[1].efficiency = 72
    /\ Len(SPTReport) = 3

\* C3: with a depth bound supplied (any value but None), a penetration-test
\* search returns only reports that have measurements and whose deepest
\* measurement M has M <= max_measurement_depth and M >= min_measurement_depth,
\* each where supplied.
C3_DepthBoundsRespected ==
    IsOrmSptSearch =>
        \A i \in 1..Len(ret.value) : SptMatchesDepth(ret.value[i], call.args)

IsOrmCptSearch == call.op = "orm.search_cpt_reports" /\ Ingested

Ids(reports, key) == {reports[i][key] : i \in 1..Len(reports)}

NoDepthBounds(f) ==
    [f EXCEPT !.max_measurement_depth = None, !.min_measurement_depth = None]

\* is the summary value of cone report id within the bounds supplied
CptSummaryWithin(id, f) ==
    \E x \in Range(CPTMaxDepth) :
        /\ x.cpt_id = id
        /\ f.max_measurement_depth # None =>
               x.max_depth <= Val(f.max_measurement_depth)
        /\ f.min_measurement_depth # None =>
               x.max_depth >= Val(f.min_measurement_depth)

\* C4: with a depth bound supplied (any value but None), a cone-test search
\* returns, once each, exactly the reports the other filters select whose
\* CPTMaxDepth.max_depth lies within the inclusive bounds.
C4_CptDepthFromSummary ==
    (IsOrmCptSearch /\ (call.args.max_measurement_depth # None
                        \/ call.args.min_measurement_depth # None)) =>
        /\ Ids(ret.value, "cpt_id") =
               {id \in Ids(orm_search_cpt_reports(NoDepthBounds(call.args)), "cpt_id") :
                    CptSummaryWithin(id, call.args)}
        /\ \A i, j \in 1..Len(ret.value) :
               ret.value[i].cpt_id = ret.value[j].cpt_id => i = j

IsDbSptSearch == call.op = "db.search_spt_reports" /\ Ingested

\* the criteria of a facade call as criteria of the query builder
AsOrmFilter(f) == [p \in SptParams |-> IF p \in DOMAIN f THEN f[p] ELSE None]

\* C5: the facade search completes without error for any subset of its
\* filters and returns one assembled report for exactly each report the
\* query builder yields for the same criteria.
C5_FacadeReturnsAssembledReports ==
    IsDbSptSearch =>
        /\ ret.status = "ok"
        /\ LET found == orm_search_spt_reports(AsOrmFilter(call.args))
           IN  /\ Len(ret.value) = Len(found)
               /\ \A i \in 1..Len(found) :
                      ret.value[i].borehole_id = found[i].borehole_id

\* out is rows, packed column by column as cols says, in ascending depth
\* with rows of equal depth in their order in rows
StablySortedByDepth(rows, out, cols) ==
    /\ Len(out) = Len(rows)
    /\ \A i \in 1..(Len(out) - 1) : out[i].depth <= out[i + 1].depth
    /\ \E p \in [1..Len(rows) -> 1..Len(rows)] :
           /\ \A i, j \in 1..Len(rows) : p[i] = p[j] => i = j
           /\ \A i \in 1..Len(rows) :
                  \A c \in cols : out[i][c[1]] = rows[p[i]][c[2]]
           /\ \A i, j \in 1..Len(rows) :
                  (i < j /\ out[i].depth = out[j].depth) => p[i] < p[j]

SptColumns == {<<"depth", "depth">>, <<"n_value", "n">>}
CptColumns == {<<"depth", "depth">>, <<"qc", "qc">>, <<"fs", "fs">>, <<"u2", "u2">>}
VsColumns == {<<"depth", "depth">>, <<"vs", "vs">>}

\* C6: every measurement series an assembler builds is a permutation of the
\* report's child rows in ascending depth, rows of equal depth in their
\* input order.
C6_SeriesStablySorted ==
    /\ call.op = "SPTReport.from_orm" =>
           StablySortedByDepth(
               Backref(SPTMeasurements, "borehole_id", call.args.borehole_id),
               SPTMeasurementsFrame(call.args), SptColumns)
    /\ call.op = "CPTReport.from_orm" =>
           /\ ret.status = "ok"
           /\ StablySortedByDepth(
                  Backref(CPTMeasurements, "cpt_id", call.args.cpt_id),
                  ret.value.measurements, CptColumns)
    /\ call.op = "VelocityProfile.from_orm" =>
           /\ ret.status = "ok"
           /\ StablySortedByDepth(
                  Backref(VsMeasurements, "profile_id", call.args.profile_id),
                  ret.value.vs_measurements, VsColumns)

\* a velocity profile assembled from three rows stored out of depth order,
\* two of them at the same depth
C6_Witness ==
    /\ call.op = "VelocityProfile.from_orm"
    /\ ret.status = "ok"
    /\ LET rows == Backref(VsMeasurements, "profile_id", call.args.profile_id)
       IN  /\ Len(rows) = 3
           /\ rows[1].depth > rows[2].depth
           /\ rows[2].depth = rows[3].depth
           /\ ret.value.vs_measurements[1].vs = rows[2].vs
           /\ ret.value.vs_measurements[2].vs = rows[3].vs
           /\ ret.value.vs_measurements[3].vs = rows[1].vs

IsSptFromOrm == call.op = "SPTReport.from_orm"

\* the labels the junction table gives soil layer s
LabelsOf(s) ==
    {x.soil_type_id : x \in {y \in Range(SoilMeasurementSoilType) :
                                 y.soil_measurement_id = s.measurement_id}}

\* C7: SPTReport.from_orm builds an interval index in which a soil layer
\* with N labels has exactly N entries.
C7_OneEntryPerLabel ==
    IsSptFromOrm =>
        LET tree == SoilMeasurementsTree(call.args)
        IN  /\ tree.status = "ok"
            /\ \A s \in Range(Backref(SoilMeasurements, "report_id",
                                      call.args.borehole_id)) :
                   Cardinality({e \in tree.value : e.data.pk = s.measurement_id})
                       = Cardinality(LabelsOf(s))

IsNzgdFromOrm == call.op = "NZGDRecord.from_orm"

\* the investigation's four geography ids all have a lookup row
GeographyResolves(g) ==
    /\ NamesOf(Region, "region_id", g.region_id) # {}
    /\ NamesOf(District, "district_id", g.district_id) # {}
    /\ NamesOf(City, "city_id", g.city_id) # {}
    /\ NamesOf(Suburb, "suburb_id", g.suburb_id) # {}

\* C8: NZGDRecord.from_orm of an investigation whose geography ids all
\* resolve returns the record with the four names looked up by id and every
\* other field copied.
C8_NamesSubstitutedForIds ==
    (IsNzgdFromOrm /\ GeographyResolves(call.args)) =>
        /\ ret.status = "ok"
        /\ ret.value.region \in NamesOf(Region, "region_id", call.args.region_id)
        /\ ret.value.district \in
               NamesOf(District, "district_id", call.args.district_id)
        /\ ret.value.city \in NamesOf(City, "city_id", call.args.city_id)
        /\ ret.value.suburb \in NamesOf(Suburb, "suburb_id", call.args.suburb_id)
        /\ \A c \in {"nzgd_id", "original_reference", "investigation_date",
                     "published_date", "latitude", "longitude"} :
               ret.value[c] = call.args[c]

\* C9: assembling a penetration-test report whose investigation has a
\* geography id without a lookup row fails with the reference-not-found
\* error (peewee's DoesNotExist).
C9_OrphanRaisesNotFound ==
    (IsSptFromOrm /\ ~GeographyResolves(InvestigationOf(call.args))) =>
        ret.status = "DoesNotExist"

\* C10: a cone-test search without filters returns every stored cone report
\* exactly once, and CPTReport.from_orm gives a report all of its
\* measurement rows in ascending depth.
C10_EmptyFilterReturnsAll ==
    /\ (IsOrmCptSearch /\ Supplied(call.args, CptParams) = {}) =>
           /\ ret.status = "ok"
           /\ Len(ret.value) = Len(CPTReport)
           /\ Ids(ret.value, "cpt_id") = Ids(CPTReport, "cpt_id")
    /\ call.op = "CPTReport.from_orm" =>
           /\ ret.status = "ok"
           /\ ret.value.cpt_id = call.args.cpt_id
           /\ StablySortedByDepth(
                  Backref(CPTMeasurements, "cpt_id", call.args.cpt_id),
                  ret.value.measurements, CptColumns)

\* the search without filters has returned the three stored cone reports,
\* one of which has no row in the max-depth summary
C10_Witness ==
    /\ IsOrmCptSearch
    /\ Supplied(call.args, CptParams) = {}
    /\ Len(ret.value) = 3
    /\ Len(CPTReport) = 3
    /\ \E i \in 1..3 :
           \A x \in Range(CPTMaxDepth) : x.cpt_id # ret.value[i].cpt_id

NoReference(f) == [f EXCEPT !.original_reference = None]

\* the reports among `reports` whose investigation's reference has the
\* filter text of f as a part, under the given notion of "part"
WithReference(reports, f, part(_, _)) ==
    {reports[i] : i \in {k \in 1..Len(reports) :
        part(InvestigationOf(reports[k]).original_reference,
             Val(f.original_reference))}}

\* are c and d the same ASCII letter in either case, or the same character
SameLetter(c, d) ==
    c = d \/ {c, d} \in {{"a", "A"}, {"b", "B"}, {"c", "C"}}

\* is needle a contiguous part of hay when ASCII letter case is ignored
ContainsIgnoringCase(hay, needle) ==
    \E i \in 0..(Len(hay) - Len(needle)) :
        \A k \in 1..Len(needle) : SameLetter(hay[i + k], needle[k])

\* C11 (as claimed): under the original_reference filter a penetration-test
\* or cone-test search returns, of the reports its other filters select,
\* exactly those whose investigation's original_reference has the filter
\* text as a substring with identical letter case.
C11_ReferenceCaseSensitive ==
    /\ (IsOrmSptSearch /\ call.args.original_reference # None) =>
           Range(ret.value) =
               WithReference(orm_search_spt_reports(NoReference(call.args)),
                             call.args, ExactContains)
    /\ (IsOrmCptSearch /\ call.args.original_reference # None) =>
           Range(ret.value) =
               WithReference(orm_search_cpt_reports(NoReference(call.args)),
                             call.args, ExactContains)

\* C11 (amended): under the original_reference filter a search returns, of
\* the reports its other filters select, exactly those whose
\* investigation's original_reference has the filter text as a substring
\* when the case of ASCII letters is ignored.
C11_ReferenceIgnoresCase ==
    /\ (IsOrmSptSearch /\ call.args.original_reference # None) =>
           Range(ret.value) =
               WithReference(orm_search_spt_reports(NoReference(call.args)),
                             call.args, ContainsIgnoringCase)
    /\ (IsOrmCptSearch /\ call.args.original_reference # None) =>
           Range(ret.value) =
               WithReference(orm_search_cpt_reports(NoReference(call.args)),
                             call.args, ContainsIgnoringCase)

\* a cone-test search by reference alone that returns a report whose
\* reference has the text only in another letter case, and leaves out a
\* report whose reference does not have it at all
C11_Witness ==
    /\ IsOrmCptSearch
    /\ call.args.original_reference # None
    /\ Supplied(call.args, CptParams) = {"original_reference"}
    /\ \E i \in 1..Len(ret.value) :
           LET ref == InvestigationOf(ret.value[i]).original_reference
           IN  /\ ~ExactContains(ref, Val(call.args.original_reference))
               /\ ContainsIgnoringCase(ref, Val(call.args.original_reference))
    /\ \E r \in Range(CPTReport) : r \notin Range(ret.value)

\* are both bounds of a range supplied, with the lower above the upper
MinAboveMax(f, lo, hi) ==
    f[lo] # None /\ f[hi] # None /\ Val(f[lo]) > Val(f[hi])

SptRangePairs == {<<"min_efficiency", "max_efficiency">>,
                  <<"min_diameter", "max_diameter">>,
                  <<"min_measurement_depth", "max_measurement_depth">>}

\* C12: a search given a range whose lower bound is above its upper bound
\* (efficiency, diameter or measurement depth for penetration tests,
\* measurement depth for cone tests) raises nothing and returns no report.
C12_InvertedRangeEmpty ==
    /\ (IsOrmSptSearch /\ \E p \in SptRangePairs :
                              MinAboveMax(call.args, p[1], p[2])) =>
           ret = Return(<<>>)
    /\ (IsOrmCptSearch /\ MinAboveMax(call.args, "min_measurement_depth",
                                      "max_measurement_depth")) =>
           ret = Return(<<>>)

\* can every part of an assembled report be read from memory: no interval
\* of the soil index carries a peewee instance, whose labels would be
\* queried from storage on access
SelfContained(report) ==
    \A e \in report.soil_measurements : "orm" \notin DOMAIN e.data

\* C13: db.search_spt_reports returns, and every record it returns is
\* self-contained: measurements, soil layers with their labels, the
\* investigation and its geography names were all fetched before the return,
\* so reading a returned record accesses storage no further.
C13_ReturnedRecordsSelfContained ==
    IsDbSptSearch =>
        /\ ret.status = "ok"
        /\ \A i \in 1..Len(ret.value) : SelfContained(ret.value[i])

\* has initialize_db run on the database file, or the ingest created it
SchemaCreated == db_tables # {}

\* C14: once initialize_db has run on an empty database, no search built by
\* search_spt_reports or search_cpt_reports fails for a missing table: every
\* table a query can name, the cone max-depth summary included, exists.
C14_NoMissingTableAfterInitialize ==
    (SchemaCreated /\ call.op \in {"orm.search_spt_reports",
                                   "orm.search_cpt_reports"}) =>
        ret.status # "OperationalError"

====
